---- MODULE Spec2Model ----
(***************************************************************************)
(* A model of src/src/js-maps.ts: the classes UnsortedMap and SortedMap.   *)
(*                                                                         *)
(* JavaScript arrays are objects held by reference, so the model keeps a   *)
(* heap of arrays and lets every map object hold two references into it    *)
(* (its keys and its values).  A JavaScript array is a TLA+ sequence; the  *)
(* JavaScript index i is the sequence index i + 1.                         *)
(*                                                                         *)
(* The program modelled is a caller that constructs one map m (of either   *)
(* class, with or without initial arrays), then calls get / has / set /    *)
(* upsert / map on it.  The caller looks at what a call gave back (the     *)
(* arrays it passed to the constructor, the object map returned) before    *)
(* its next call, and lets go of it when it makes that call.               *)
(***************************************************************************)
EXTENDS Integers, Sequences, FiniteSets, TLC

\* ------------------------------------------------------------------ bounds
\* Longest initial key / value arrays handed to a constructor.
MaxInitLen == 2
\* Number of heap cells (arrays that can be alive at the same time).
NumRefs == 10
\* Longest arrays handed to SortedMap's constructor to be sorted.
MaxSortLen == 3

\* ------------------------------------------------------------ value domains
\* KeyType: the keys used by callers.
Keys == {"x", "y", "z"}
\* ValueType (extends number for SortedMap): the values used by callers.
Values == {1, 5, 9}
\* JavaScript's undefined, the result of reading an array out of its range.
Undefined == 0 - 1
Classes == {"UnsortedMap", "SortedMap"}
Refs == 1 .. NumRefs

VARIABLES
    heap,       \* Refs -> the contents of each array
    alloc,      \* the set of references that are in use
    m,          \* the map under test: [cls, keys, values]
    r,          \* the object returned by m.map() in the last call, or Null
    caller,     \* the arrays the caller has just passed to m's constructor
    lastCall,   \* the last call made, its arguments and its return value
    last,       \* history: Keys -> the value of the most recent set on m
    order,      \* history: the keys set on m, in order of their first set
    startedEmpty \* history: m held no entries right after construction

vars == <<heap, alloc, m, r, caller, lastCall, last, order, startedEmpty>>

Null == [cls |-> "null"]
NoArgs == [given |-> FALSE]

\* --------------------------------------------------------- array primitives
Min(S) == CHOOSE x \in S : \A y \in S : x <= y

\* arr[i]: undefined out of range.
At(arr, i) == IF i >= 0 /\ i < Len(arr) THEN arr[i + 1] ELSE Undefined

\* arr[i] = x: extends the array when i is past its end.
RECURSIVE ArrSet(_, _, _)
ArrSet(arr, i, x) ==
    IF i < 0 THEN arr
    ELSE IF i < Len(arr) THEN [arr EXCEPT ![i + 1] = x]
    ELSE IF i = Len(arr) THEN Append(arr, x)
    ELSE ArrSet(Append(arr, Undefined), i, x)

\* arr.indexOf(x): the first index holding x, or -1.
indexOf(arr, x) ==
    IF \E i \in 1 .. Len(arr) : arr[i] = x
    THEN Min({i \in 1 .. Len(arr) : arr[i] = x}) - 1
    ELSE 0 - 1

\* arr.push(x)
push(arr, x) == Append(arr, x)

\* arr.splice(index, 1): removes the element at index.
splice(arr, index) ==
    [i \in 1 .. (Len(arr) - 1) |-> IF i <= index THEN arr[i] ELSE arr[i + 1]]

\* ------------------------------------------------------------------- heap
\* A store is the pair of the heap and the set of references in use.
\* A new array takes the smallest reference not in use.
NewArray(st, arr) ==
    LET ref == Min(Refs \ st.a)
    IN  [st  |-> [h |-> [st.h EXCEPT ![ref] = arr], a |-> st.a \cup {ref}],
         ref |-> ref]

\* Arrays nothing refers to any more are collected.
Roots(om, or, oc) ==
    {om.keys, om.values}
    \cup (IF or.cls = "null" THEN {} ELSE {or.keys, or.values})
    \cup (IF oc.given THEN {oc.keys, oc.values} ELSE {})

Collect(st, roots) ==
    [h |-> [ref \in Refs |-> IF ref \in roots THEN st.h[ref] ELSE <<>>],
     a |-> roots]

\* ----------------------------------------------------------- constructors
\* A parameter left out takes its default, a new empty array.
DefaultArgs(st, args) ==
    IF args.given THEN [st |-> st, keys |-> args.keys, values |-> args.values]
    ELSE LET k == NewArray(st, <<>>)
             v == NewArray(k.st, <<>>)
         IN  [st |-> v.st, keys |-> k.ref, values |-> v.ref]

\* UnsortedMap's constructor keeps the arrays it is given, by reference.
UnsortedMap_constructor(st, cls, args) ==
    LET a == DefaultArgs(st, args)
    IN  [st |-> a.st, obj |-> [cls |-> cls, keys |-> a.keys, values |-> a.values]]

\* Variant: the pass swaps the values and leaves the keys where they are.
RECURSIVE SortPass_valuesOnly(_, _, _, _)
SortPass_valuesOnly(ks, vs, i, j) ==
    IF i >= Len(vs) THEN [keys |-> ks, values |-> vs]
    ELSE IF j >= Len(vs) THEN SortPass_valuesOnly(ks, vs, i + 1, i + 2)
    ELSE IF At(vs, i) < At(vs, j)
         THEN SortPass_valuesOnly(ks,
                       ArrSet(ArrSet(vs, j, At(vs, i)), i, At(vs, j)),
                       i, j + 1)
         ELSE SortPass_valuesOnly(ks, vs, i, j + 1)

\* The pairwise pass of SortedMap's constructor over the arrays it is given:
\* for i < j, swap keys and values at i and j when values[i] < values[j].
RECURSIVE SortPass(_, _, _, _)
SortPass(ks, vs, i, j) ==
    IF i >= Len(vs) THEN [keys |-> ks, values |-> vs]
    ELSE IF j >= Len(vs) THEN SortPass(ks, vs, i + 1, i + 2)
    ELSE IF At(vs, i) < At(vs, j)
         THEN SortPass(ArrSet(ArrSet(ks, j, At(ks, i)), i, At(ks, j)),
                       ArrSet(ArrSet(vs, j, At(vs, i)), i, At(vs, j)),
                       i, j + 1)
         ELSE SortPass(ks, vs, i, j + 1)

\* Variant: super(keys, values), the sorted arrays handed on.
SuperArgs_passed(sortedArgs) == sortedArgs

\* What SortedMap's constructor hands to super(): nothing.
SuperArgs(sortedArgs) == NoArgs

\* SortedMap's constructor sorts its arguments in place, then calls super().
SortedMap_constructor(st, args) ==
    LET a      == DefaultArgs(st, args)
        sorted == SortPass(a.st.h[a.keys], a.st.h[a.values], 0, 1)
        h1     == [a.st.h EXCEPT ![a.keys] = sorted.keys]
        h2     == [h1 EXCEPT ![a.values] = sorted.values]
        st2    == [h |-> h2, a |-> a.st.a]
    IN  UnsortedMap_constructor(st2, "SortedMap",
            SuperArgs([given |-> TRUE, keys |-> a.keys, values |-> a.values]))

\* new C(keys, values), for the class C named by cls.
Construct(st, cls, args) ==
    IF cls = "SortedMap" THEN SortedMap_constructor(st, args)
    ELSE UnsortedMap_constructor(st, "UnsortedMap", args)

\* ---------------------------------------------------------------- methods
KeysOf(h, o) == h[o.keys]
ValuesOf(h, o) == h[o.values]

\* Variant: an index of -1 reads from the end of the array.
UnsortedMap_get_wrap(h, o, key) ==
    LET index == indexOf(KeysOf(h, o), key)
    IN  At(ValuesOf(h, o), IF index < 0 THEN Len(ValuesOf(h, o)) + index ELSE index)

\* get(key)
UnsortedMap_get(h, o, key) == At(ValuesOf(h, o), indexOf(KeysOf(h, o), key))

\* has(key)
UnsortedMap_has(h, o, key) == indexOf(KeysOf(h, o), key) > 0 - 1

\* Variant: the index is not looked up, every set appends.
UnsortedMap_set_push(h, o, setKey, setValue) ==
    LET h1 == [h EXCEPT ![o.keys] = push(h[o.keys], setKey)]
    IN  [h1 EXCEPT ![o.values] = push(h1[o.values], setValue)]

\* Variant: an existing key is moved to the end instead of updated in place.
UnsortedMap_set_move(h, o, setKey, setValue) ==
    LET index == indexOf(KeysOf(h, o), setKey)
        ks    == IF index = 0 - 1 THEN h[o.keys] ELSE splice(h[o.keys], index)
        vs    == IF index = 0 - 1 THEN h[o.values] ELSE splice(h[o.values], index)
        h1    == [h EXCEPT ![o.keys] = push(ks, setKey)]
    IN  [h1 EXCEPT ![o.values] = push(vs, setValue)]

\* UnsortedMap.set(setKey, setValue): returns the heap after the call.
UnsortedMap_set(h, o, setKey, setValue) ==
    LET index == indexOf(KeysOf(h, o), setKey)
    IN  IF index = 0 - 1
        THEN LET h1 == [h EXCEPT ![o.keys] = push(h[o.keys], setKey)]
             IN  [h1 EXCEPT ![o.values] = push(h1[o.values], setValue)]
        ELSE LET h1 == [h EXCEPT ![o.keys] = ArrSet(h[o.keys], index, setKey)]
             IN  [h1 EXCEPT ![o.values] = ArrSet(h1[o.values], index, setValue)]

\* Variant: the comparison turned round.
PlaceHere_less(vs, i, setValue) == i = 0 \/ At(vs, i - 1) < setValue

\* Variant: the comparison not strict.
PlaceHere_geq(vs, i, setValue) == i = 0 \/ At(vs, i - 1) >= setValue

\* The test that ends the shifting loop of SortedMap.set at index i.
PlaceHere(vs, i, setValue) == i = 0 \/ At(vs, i - 1) > setValue

\* Variant: the loop looks for the place but moves no entry up.
RECURSIVE ShiftLoop_noShift(_, _, _, _, _)
ShiftLoop_noShift(ks, vs, i, setKey, setValue) ==
    IF ~(i > 0 - 1) THEN [keys |-> ks, values |-> vs]
    ELSE IF PlaceHere(vs, i, setValue)
         THEN [keys |-> ArrSet(ks, i, setKey), values |-> ArrSet(vs, i, setValue)]
         ELSE ShiftLoop_noShift(ks, vs, i - 1, setKey, setValue)

\* The loop of SortedMap.set: from the end, move entries one index up until
\* the place for the value is found.
RECURSIVE ShiftLoop(_, _, _, _, _)
ShiftLoop(ks, vs, i, setKey, setValue) ==
    IF ~(i > 0 - 1) THEN [keys |-> ks, values |-> vs]
    ELSE IF PlaceHere(vs, i, setValue)
         THEN [keys |-> ArrSet(ks, i, setKey), values |-> ArrSet(vs, i, setValue)]
         ELSE ShiftLoop(ArrSet(ks, i, At(ks, i - 1)),
                        ArrSet(vs, i, At(vs, i - 1)),
                        i - 1, setKey, setValue)

\* Variant: an existing key is left where it is.
RemoveExisting_skip(ks, vs, setKey) == [keys |-> ks, values |-> vs]

\* The first part of SortedMap.set: if the key exists, remove key and value.
RemoveExisting(ks, vs, setKey) ==
    LET index == indexOf(ks, setKey)
    IN  IF index > 0 - 1
        THEN [keys |-> splice(ks, index), values |-> splice(vs, index)]
        ELSE [keys |-> ks, values |-> vs]

\* SortedMap.set(setKey, setValue): returns the heap after the call.
SortedMap_set(h, o, setKey, setValue) ==
    LET rem  == RemoveExisting(h[o.keys], h[o.values], setKey)
        done == ShiftLoop(rem.keys, rem.values, Len(rem.values), setKey, setValue)
        h1   == [h EXCEPT ![o.keys] = done.keys]
    IN  [h1 EXCEPT ![o.values] = done.values]

\* this.set(...): the method of the object's own class.
set(h, o, setKey, setValue) ==
    IF o.cls = "SortedMap" THEN SortedMap_set(h, o, setKey, setValue)
    ELSE UnsortedMap_set(h, o, setKey, setValue)

\* get / has / set as called on an object: the heap is the store's.
get(h, o, key) == UnsortedMap_get(h, o, key)
has(h, o, key) == UnsortedMap_has(h, o, key)

\* -------------------------------------------------------------- callbacks
\* The callbacks callers pass to map: (key, value) => ValueType.
MapCallbacks == {"same", "flip", "nine", "byKey"}
MapCallback(fn, key, value) ==
    CASE fn = "same"  -> value
      [] fn = "flip"  -> 10 - value
      [] fn = "nine"  -> 9
      [] fn = "byKey" -> IF key = "x" THEN 1 ELSE value

\* The callbacks callers pass to upsert: (currentValue | undefined) => ValueType.
UpsertCallbacks == {"count", "reset", "flip"}
UpsertCallback(fn, currentValue) ==
    CASE fn = "count" -> IF currentValue = Undefined THEN 1
                         ELSE IF currentValue = 1 THEN 5 ELSE 9
      [] fn = "reset" -> 5
      [] fn = "flip"  -> IF currentValue = Undefined THEN 9 ELSE 10 - currentValue

\* ----------------------------------------------------------- map, upsert
\* Variant: const keys = this.keys, the receiver's own array.
MapKeys_alias(st, o) == [st |-> st, ref |-> o.keys]

\* const keys = this.keys.concat([]): a new array with the same elements.
MapKeys(st, o) == NewArray(st, st.h[o.keys])

\* Variant: the results are written into the receiver's own values array.
MapValues_inPlace(st, o, fn) ==
    [st  |-> [h |-> [st.h EXCEPT ![o.values] =
                        [i \in 1 .. Len(st.h[o.keys]) |->
                            MapCallback(fn, st.h[o.keys][i], At(st.h[o.values], i - 1))]],
              a |-> st.a],
     ref |-> o.values]

\* const values = this.keys.map((key, i) => callback(key, this.values[i]))
MapValues(st, o, fn) ==
    NewArray(st, [i \in 1 .. Len(st.h[o.keys]) |->
                    MapCallback(fn, st.h[o.keys][i], At(st.h[o.values], i - 1))])

\* map(callback): returns the store after the call and the new object,
\* built by the constructor of the receiver's own class.
UnsortedMap_map(st, o, fn) ==
    LET k == MapKeys(st, o)
        v == MapValues(k.st, o, fn)
    IN  Construct(v.st, o.cls, [given |-> TRUE, keys |-> k.ref, values |-> v.ref])

\* Variant: the write is bound to UnsortedMap's set, not to this.set.
UnsortedMap_upsert_static(h, o, setKey, fn) ==
    LET value == get(h, o, setKey)
    IN  UnsortedMap_set(h, o, setKey, UpsertCallback(fn, value))

\* upsert(setKey, callback): returns the heap after the call.
UnsortedMap_upsert(h, o, setKey, fn) ==
    LET value == get(h, o, setKey)
    IN  set(h, o, setKey, UpsertCallback(fn, value))

\* ------------------------------------------------------------------ Init
RECURSIVE SeqsOf(_, _)
SeqsOf(S, n) ==
    IF n = 0 THEN {<<>>}
    ELSE {<<>>} \cup {Append(q, x) : q \in SeqsOf(S, n - 1), x \in S}

\* The initial arrays a caller may pass: two arrays of one length, the keys
\* pairwise distinct.
InitArrays ==
    {<<ks, vs>> \in SeqsOf(Keys, MaxInitLen) \X SeqsOf(Values, MaxInitLen) :
        /\ Len(ks) = Len(vs)
        /\ \A i, j \in 1 .. Len(ks) : ks[i] = ks[j] => i = j}

EmptyStore == [h |-> [ref \in Refs |-> <<>>], a |-> {}]

\* The state after `m = new C()` or `m = new C(keys, values)`; lastCall keeps
\* the arguments as they were passed.
InitWith(cls, given, ks, vs) ==
    LET k    == NewArray(EmptyStore, ks)
        v    == NewArray(k.st, vs)
        args == IF given THEN [given |-> TRUE, keys |-> k.ref, values |-> v.ref]
                ELSE NoArgs
        res  == Construct(IF given THEN v.st ELSE EmptyStore, cls, args)
        st   == Collect(res.st, Roots(res.obj, Null, args))
    IN  /\ heap = st.h
        /\ alloc = st.a
        /\ m = res.obj
        /\ r = Null
        /\ caller = args
        /\ lastCall = [op |-> "new", cls |-> cls, given |-> given,
                       keys |-> ks, values |-> vs]
        /\ last = [k0 \in Keys |-> Undefined]
        /\ order = <<>>
        /\ startedEmpty = (Len(res.st.h[res.obj.keys]) = 0)

Init ==
    \E cls \in Classes :
        \/ InitWith(cls, FALSE, <<>>, <<>>)
        \/ \E ia \in InitArrays : InitWith(cls, TRUE, ia[1], ia[2])

\* The arrays a caller may hand to SortedMap's constructor: two arrays of one
\* length, of any keys and values (a key or a value may repeat).
SortArrays ==
    {<<ks, vs>> \in SeqsOf(Keys, MaxSortLen) \X SeqsOf(Values, MaxSortLen) :
        Len(ks) = Len(vs)}

\* The state after `m = new SortedMap(keys, values)`.
InitSort == \E ia \in SortArrays : InitWith("SortedMap", TRUE, ia[1], ia[2])

\* --------------------------------------------------------------- actions
Range(q) == {q[i] : i \in 1 .. Len(q)}

\* The caller lets go of the constructor's arguments and of the last result
\* of map; result is what the call now made gives back (an object or Null).
Release(h, result) ==
    LET st == Collect([h |-> h, a |-> alloc], Roots(m, result, NoArgs))
    IN  /\ heap' = st.h
        /\ alloc' = st.a
        /\ r' = result
        /\ caller' = NoArgs

\* m.get(key)
Get(key) ==
    /\ lastCall' = [op |-> "get", key |-> key, ret |-> get(heap, m, key)]
    /\ Release(heap, Null)
    /\ UNCHANGED <<m, last, order, startedEmpty>>

\* m.has(key)
Has(key) ==
    /\ lastCall' = [op |-> "has", key |-> key, ret |-> has(heap, m, key)]
    /\ Release(heap, Null)
    /\ UNCHANGED <<m, last, order, startedEmpty>>

\* The history of writes: value written for a key, and order of first writes.
Written(key, value) ==
    /\ last' = [last EXCEPT ![key] = value]
    /\ order' = IF key \in Range(order) THEN order ELSE Append(order, key)

\* m.set(key, value)
Set(key, value) ==
    /\ Release(set(heap, m, key, value), Null)
    /\ lastCall' = [op |-> "set", key |-> key, val |-> value,
                    again |-> /\ lastCall.op = "set"
                              /\ lastCall.key = key
                              /\ lastCall.val = value]
    /\ Written(key, value)
    /\ UNCHANGED <<m, startedEmpty>>

\* m.upsert(key, callback)
Upsert(key, fn) ==
    /\ Release(UnsortedMap_upsert(heap, m, key, fn), Null)
    /\ lastCall' = [op |-> "upsert", key |-> key, fn |-> fn]
    /\ Written(key, UpsertCallback(fn, get(heap, m, key)))
    /\ UNCHANGED <<m, startedEmpty>>

\* r = m.map(callback)
Map(fn) ==
    LET res == UnsortedMap_map([h |-> heap, a |-> alloc], m, fn)
        st  == Collect(res.st, Roots(m, res.obj, NoArgs))
    IN  /\ heap' = st.h
        /\ alloc' = st.a
        /\ r' = res.obj
        /\ caller' = NoArgs
        /\ lastCall' = [op |-> "map", fn |-> fn]
        /\ UNCHANGED <<m, last, order, startedEmpty>>

Next ==
    \/ \E key \in Keys : Get(key)
    \/ \E key \in Keys : Has(key)
    \/ \E key \in Keys, value \in Values : Set(key, value)
    \/ \E key \in Keys, fn \in UpsertCallbacks : Upsert(key, fn)
    \/ \E fn \in MapCallbacks : Map(fn)

Spec == Init /\ [][Next]_vars

\* The caller that constructs a SortedMap from arrays of its own.
SpecSort == InitSort /\ [][Next]_vars

\* ------------------------------------------- a caller that keeps the result
\* The caller constructs m empty, and keeps the object map returned for as
\* long as it likes, calling set and upsert on m and on the result r.
ShareKeys == {"x", "y"}

\* The state after `m = new C()`.
InitShare == \E cls \in Classes : InitWith(cls, FALSE, <<>>, <<>>)

\* The object a call is made on: m, or the result r of the last map.
Target(on) == IF on = "m" THEN m ELSE r

\* The history of writes is that of m: a call on r leaves it alone.
WrittenOn(on, key, value) ==
    IF on = "m" THEN Written(key, value) ELSE UNCHANGED <<last, order>>

\* m.set(key, value) or r.set(key, value), r still held by the caller.
SetOn(on, key, value) ==
    /\ on = "r" => r.cls # "null"
    /\ heap' = set(heap, Target(on), key, value)
    /\ lastCall' = [op |-> "set", on |-> on, key |-> key, val |-> value]
    /\ WrittenOn(on, key, value)
    /\ UNCHANGED <<alloc, m, r, caller, startedEmpty>>

\* m.upsert(key, callback) or r.upsert(key, callback), r still held.
UpsertOn(on, key, fn) ==
    /\ on = "r" => r.cls # "null"
    /\ heap' = UnsortedMap_upsert(heap, Target(on), key, fn)
    /\ lastCall' = [op |-> "upsert", on |-> on, key |-> key, fn |-> fn]
    /\ WrittenOn(on, key, UpsertCallback(fn, get(heap, Target(on), key)))
    /\ UNCHANGED <<alloc, m, r, caller, startedEmpty>>

NextShare ==
    \/ \E on \in {"m", "r"}, key \in ShareKeys, value \in Values :
          SetOn(on, key, value)
    \/ \E on \in {"m", "r"}, key \in ShareKeys, fn \in UpsertCallbacks :
          UpsertOn(on, key, fn)
    \/ \E fn \in MapCallbacks : Map(fn)

SpecShare == InitShare /\ [][NextShare]_vars

\* ================================================================ claims
\* The keys and the values of m in the current state.
mKeys == KeysOf(heap, m)
mValues == ValuesOf(heap, m)
Sorted == m.cls = "SortedMap"
Unsorted == m.cls = "UnsortedMap"

\* The heap after o.set(k1, v1).set(k2, v2).set(k3, v3), from heap h.
Set3(h, o, k1, v1, k2, v2, k3, v3) ==
    set(set(set(h, o, k1, v1), o, k2, v2), o, k3, v3)

\* A map that has just been constructed and holds nothing.
FreshEmpty == lastCall.op = "new" /\ Len(mKeys) = 0 /\ Len(mValues) = 0

\* C1: in a SortedMap started empty, after any sequence of set and upsert
\* calls, values[i] >= values[i+1] for every adjacent pair of indices.
C1_Descending ==
    Sorted => \A i \in 1 .. (Len(mValues) - 1) : mValues[i] >= mValues[i + 1]

\* C1 witness: a SortedMap of three entries, not all of one value, the last
\* of them written through upsert.
C1_Witness ==
    /\ Sorted
    /\ lastCall.op = "upsert"
    /\ Len(mValues) = 3
    /\ mValues[1] > mValues[3]

\* After SortedMap.set(k, v): the entry of k is before (lower index than)
\* every other entry that holds the value v.
BeforeEqualRun ==
    (Sorted /\ lastCall.op = "set") =>
        \A j \in 1 .. Len(mValues) :
            (mValues[j] = lastCall.val /\ mKeys[j] # lastCall.key)
                => indexOf(mKeys, lastCall.key) < j - 1

\* After SortedMap.set(k, v): the entry of k is after (higher index than)
\* every other entry that holds the value v.
AfterEqualRun ==
    (Sorted /\ lastCall.op = "set") =>
        \A j \in 1 .. Len(mValues) :
            (mValues[j] = lastCall.val /\ mKeys[j] # lastCall.key)
                => indexOf(mKeys, lastCall.key) > j - 1

\* The keys and values after set("x",5), set("y",9), set("z",9) on a
\* SortedMap that has just been constructed.
Scenario3(ks, vs) ==
    (Sorted /\ FreshEmpty) =>
        LET h3 == Set3(heap, m, "x", 5, "y", 9, "z", 9)
        IN  KeysOf(h3, m) = ks /\ ValuesOf(h3, m) = vs

\* C2 as stated: SortedMap.set(k, v) places k after the whole run of entries
\* of value v; set("x",5), set("y",9), set("z",9) from empty ends with
\* keys = ["y","z","x"] and values = [9,9,5].
C2_AsStated ==
    AfterEqualRun /\ Scenario3(<<"y", "z", "x">>, <<9, 9, 5>>)

\* C2 amended: SortedMap.set(k, v) places k before the whole run of entries
\* of value v; set("x",5), set("y",9), set("z",9) from empty ends with
\* keys = ["z","y","x"] and values = [9,9,5].
C2_BeforeTies ==
    BeforeEqualRun /\ Scenario3(<<"z", "y", "x">>, <<9, 9, 5>>)

\* C2 witness: the state the three calls end in, z having just been set to 9
\* beside y, which already held 9.
C2_Witness ==
    /\ Sorted
    /\ lastCall.op = "set" /\ lastCall.key = "z" /\ lastCall.val = 9
    /\ order = <<"x", "y", "z">>
    /\ mKeys = <<"z", "y", "x">>
    /\ mValues = <<9, 9, 5>>

\* C3 as stated: map(f) on a SortedMap of n entries returns a SortedMap that
\* holds the same n keys, each key k of value v holding f(k, v).
C3_AsStated ==
    (Sorted /\ lastCall.op = "map") =>
        /\ r.cls = "SortedMap"
        /\ Len(KeysOf(heap, r)) = Len(mKeys)
        /\ \A i \in 1 .. Len(mKeys) :
              /\ has(heap, r, mKeys[i])
              /\ get(heap, r, mKeys[i]) = MapCallback(lastCall.fn, mKeys[i], mValues[i])

\* The keys a map holds and the values get returns agree with the history of
\* writes: a key that was set holds the value of its most recent set, a key
\* never set is absent.
AgreesWithHistory ==
    \A k \in Keys :
        IF last[k] = Undefined
        THEN ~has(heap, m, k)
        ELSE has(heap, m, k) /\ get(heap, m, k) = last[k]

\* C4: in a SortedMap started empty, every key ever set is present with the
\* value of its most recent set, and keys never set are absent.
C4_SortedKeepsAll == Sorted => AgreesWithHistory

\* C4 witness: a SortedMap of three keys where the key just set went to the
\* front, so that the two others were moved up one index.
C4_Witness ==
    /\ Sorted
    /\ lastCall.op = "set"
    /\ Len(mKeys) = 3
    /\ indexOf(mKeys, lastCall.key) = 0
    /\ mValues[2] < lastCall.val

\* C5: in an UnsortedMap started empty, every key that was set is present
\* and get returns the value of its most recent set.
C5_UnsortedLatest ==
    (Unsorted /\ startedEmpty) =>
        \A k \in Keys :
            last[k] # Undefined => has(heap, m, k) /\ get(heap, m, k) = last[k]

\* C5 witness: an UnsortedMap started empty, of two keys or more, where the
\* key just set was there already (its value was replaced).
C5_Witness ==
    /\ Unsorted /\ startedEmpty
    /\ lastCall.op = "set"
    /\ Len(mKeys) >= 2
    /\ Len(mKeys) = Len(order)
    /\ lastCall.key = mKeys[1]
    /\ mValues[1] # mValues[2]

\* C6: for both classes, set(k, v) called a second time in a row leaves the
\* keys and the values exactly as the first call left them.
C6_SetTwice ==
    [][(lastCall'.op = "set" /\ lastCall'.again) =>
          /\ KeysOf(heap', m') = mKeys
          /\ ValuesOf(heap', m') = mValues]_vars

\* C6 witness: a SortedMap in which the same set(k, v) has just been made
\* twice in a row, k sharing its value with another key.
C6_Witness ==
    /\ Sorted
    /\ lastCall.op = "set" /\ lastCall.again
    /\ Len(mKeys) = 3
    /\ \E j \in 1 .. 3 : mKeys[j] # lastCall.key /\ mValues[j] = lastCall.val

\* The keys and values after set("a",1), set("b",2), set("a",3) on an
\* UnsortedMap that has just been constructed empty.
Scenario1 ==
    (Unsorted /\ FreshEmpty) =>
        LET h3 == Set3(heap, m, "a", 1, "b", 2, "a", 3)
        IN  KeysOf(h3, m) = <<"a", "b">> /\ ValuesOf(h3, m) = <<3, 2>>

\* A set or upsert on a key an UnsortedMap holds writes the value at the
\* key's index and moves nothing.
InPlace ==
    (Unsorted /\ lastCall'.op \in {"set", "upsert"} /\ has(heap, m, lastCall'.key)) =>
        /\ KeysOf(heap', m') = mKeys
        /\ \A i \in 1 .. Len(mValues) :
              i - 1 # indexOf(mKeys, lastCall'.key)
                  => ValuesOf(heap', m')[i] = mValues[i]
        /\ Len(ValuesOf(heap', m')) = Len(mValues)

\* C7: in an UnsortedMap started empty the keys are exactly the keys set, in
\* the order of their first set, and a set on a key already there replaces
\* its value at its index, moving no key; set("a",1), set("b",2), set("a",3)
\* gives keys ["a","b"] and values [3,2].
C7_InsertionOrder ==
    /\ []((Unsorted /\ startedEmpty) => mKeys = order)
    /\ []Scenario1
    /\ [][startedEmpty => InPlace]_vars

\* C7 witness: an UnsortedMap started empty, of three keys, where the key
\* just set was the first one set and the values are not in their order.
C7_Witness ==
    /\ Unsorted /\ startedEmpty
    /\ lastCall.op = "set"
    /\ Len(mKeys) = 3
    /\ lastCall.key = mKeys[1]
    /\ mValues[1] > mValues[2]
    /\ mValues[3] > mValues[2]

C9_MapFrame ==
    [][(Unsorted /\ lastCall'.op = "map") =>
          /\ KeysOf(heap', m') = mKeys
          /\ ValuesOf(heap', m') = mValues
          /\ r'.cls = "UnsortedMap"
          /\ KeysOf(heap', r') = mKeys
          /\ Len(ValuesOf(heap', r')) = Len(mValues)
          /\ \A i \in 1 .. Len(mKeys) :
                ValuesOf(heap', r')[i] = MapCallback(lastCall'.fn, mKeys[i], mValues[i])]_vars

\* C9 witness: an UnsortedMap of three keys that has just been mapped with a
\* callback that changed a value.
C9_Witness ==
    /\ Unsorted
    /\ lastCall.op = "map"
    /\ Len(mKeys) = 3
    /\ \E i \in 1 .. 3 : ValuesOf(heap, r)[i] # mValues[i]

\* C10: for both classes m.upsert(k, f) ends in the keys and values that
\* m.set(k, f(m.get(k))) gives from the state before the call, f receiving
\* undefined when k is absent, the set being that of m's own class.
C10_UpsertIsSet ==
    [][lastCall'.op = "upsert" =>
          LET k   == lastCall'.key
              cur == IF \E i \in 1 .. Len(mKeys) : mKeys[i] = k
                     THEN mValues[indexOf(mKeys, k) + 1]
                     ELSE Undefined
              v   == UpsertCallback(lastCall'.fn, cur)
              h1  == IF Sorted THEN SortedMap_set(heap, m, k, v)
                     ELSE UnsortedMap_set(heap, m, k, v)
          IN  /\ KeysOf(heap', m') = KeysOf(h1, m)
              /\ ValuesOf(heap', m') = ValuesOf(h1, m)]_vars

\* C10 witness: a SortedMap of three keys where upsert has just written a
\* key that ends before another entry.
C10_Witness ==
    /\ Sorted
    /\ lastCall.op = "upsert"
    /\ Len(mKeys) = 3
    /\ indexOf(mKeys, lastCall.key) < 2
    /\ mValues[1] > mValues[3]

\* C11: for both classes, created empty or (UnsortedMap) from initial arrays
\* of pairwise distinct keys, no key is at two indices of the keys array in
\* any reachable state.
C11_UniqueKeys ==
    \A i, j \in 1 .. Len(mKeys) : mKeys[i] = mKeys[j] => i = j

\* C11 witness: an UnsortedMap constructed from initial arrays, now of three
\* keys, where the same set has just been made a second time.
C11_Witness ==
    /\ Unsorted /\ ~startedEmpty
    /\ Len(mKeys) = 3
    /\ lastCall.op = "set" /\ lastCall.again

\* C12: for both classes get(k) on a key that is not present returns
\* undefined and has(k) returns false (so has is false for every key of an
\* empty map), and neither call changes the keys or the values.
C12_AbsentKey ==
    [][(lastCall'.op \in {"get", "has"} /\ lastCall'.key \notin Range(mKeys)) =>
          /\ lastCall'.op = "get" => lastCall'.ret = Undefined
          /\ lastCall'.op = "has" => lastCall'.ret = FALSE
          /\ KeysOf(heap', m') = mKeys
          /\ ValuesOf(heap', m') = mValues]_vars

\* C12 witness: get has just returned undefined for a key absent from a map
\* that holds two other keys.
C12_Witness ==
    /\ lastCall.op = "get"
    /\ lastCall.key \notin Range(mKeys)
    /\ lastCall.ret = Undefined
    /\ Len(mKeys) = 2

\* The number of indices at which the arrays ks, vs hold the pair (k, v).
PairCount(ks, vs, k, v) ==
    Cardinality({i \in 1 .. Len(ks) : ks[i] = k /\ vs[i] = v})

\* C13: the pairwise-swap pass of SortedMap's constructor leaves the arrays
\* the caller passed with values in non-increasing order and as a
\* permutation of the original (key, value) pairs.
C13_SortPass ==
    (lastCall.op = "new" /\ lastCall.cls = "SortedMap" /\ lastCall.given) =>
        LET ks == heap[caller.keys]
            vs == heap[caller.values]
        IN  /\ Len(ks) = Len(lastCall.keys)
            /\ Len(vs) = Len(lastCall.values)
            /\ \A i \in 1 .. (Len(vs) - 1) : vs[i] >= vs[i + 1]
            /\ \A k \in Keys, v \in Values :
                  PairCount(ks, vs, k, v)
                      = PairCount(lastCall.keys, lastCall.values, k, v)

\* C13 witness: three pairs of distinct keys passed in ascending order of
\* value, left by the constructor in descending order.
C13_Witness ==
    /\ lastCall.op = "new" /\ lastCall.cls = "SortedMap" /\ lastCall.given
    /\ lastCall.keys = <<"x", "y", "z">>
    /\ lastCall.values = <<1, 5, 9>>
    /\ heap[caller.keys] = <<"z", "y", "x">>
    /\ heap[caller.values] = <<9, 5, 1>>

\* C14: after SortedMap.set(k, v) the entry (k, v) is at the index i with
\* i = 0 or values[i-1] > v, every entry at an index above i has a value
\* <= v, and i is the number of other entries of a value above v.
C14_InsertIndex ==
    (Sorted /\ lastCall.op \in {"set", "upsert"}) =>
        LET k == lastCall.key
            v == last[k]
            i == indexOf(mKeys, k)
        IN  /\ i >= 0
            /\ At(mValues, i) = v
            /\ i = 0 \/ At(mValues, i - 1) > v
            /\ \A j \in (i + 1) .. (Len(mValues) - 1) : At(mValues, j) <= v
            /\ i = Cardinality({j \in 0 .. (Len(mValues) - 1) :
                                  At(mKeys, j) # k /\ At(mValues, j) > v})

\* C14 witness: a key set to 5 in a SortedMap that holds a 9 before it and
\* another 5 after it.
C14_Witness ==
    /\ Sorted
    /\ lastCall.op = "set" /\ lastCall.val = 5
    /\ mValues = <<9, 5, 5>>
    /\ indexOf(mKeys, lastCall.key) = 1

\* C15: for both classes, created empty, keys and values have one length in
\* every reachable state, the number of distinct keys set so far.
C15_Lengths ==
    startedEmpty =>
        /\ Len(mKeys) = Len(mValues)
        /\ Len(mKeys) = Cardinality({k \in Keys : last[k] # Undefined})

\* C15 witness: a map started empty that holds two keys after a call that
\* wrote a key it held already.
C15_Witness ==
    /\ startedEmpty
    /\ lastCall.op = "upsert" /\ lastCall.fn = "count"
    /\ last[lastCall.key] = 9
    /\ Len(mKeys) = 2

\* The (key, value) pairs of the arrays ks, vs, in order, without the pair
\* of key k.
Others(ks, vs, k) ==
    LET pairs == [i \in 1 .. Len(ks) |-> <<ks[i], At(vs, i - 1)>>]
        Keep(p) == p[1] # k
    IN  SelectSeq(pairs, Keep)

\* C16: SortedMap.set(k, v) leaves the sequence of the other (key, value)
\* pairs as it was (same pairs, same order); the length grows by 1 when k
\* was absent and stays when k was present.
C16_OthersKept ==
    [][(Sorted /\ lastCall'.op \in {"set", "upsert"}) =>
          LET k == lastCall'.key
          IN  /\ Others(KeysOf(heap', m'), ValuesOf(heap', m'), k)
                    = Others(mKeys, mValues, k)
              /\ Len(KeysOf(heap', m')) =
                    IF k \in Range(mKeys) THEN Len(mKeys) ELSE Len(mKeys) + 1
              /\ Len(ValuesOf(heap', m')) = Len(KeysOf(heap', m'))]_vars

\* C16 witness: a SortedMap of three keys where the key just set, present
\* before, now lies between the two others.
C16_Witness ==
    /\ Sorted
    /\ lastCall.op = "set"
    /\ Len(order) = 3 /\ order[1] = lastCall.key
    /\ Len(mKeys) = 3
    /\ indexOf(mKeys, lastCall.key) = 1
    /\ mValues[1] > mValues[2] /\ mValues[2] > mValues[3]

\* C17: the container UnsortedMap.map returned shares no storage with the
\* receiver: a later set or upsert on the result leaves the receiver's keys
\* and values unchanged, and a later set or upsert on the receiver leaves
\* the result's keys and values unchanged.
C17_NoSharing ==
    /\ []((Unsorted /\ r.cls # "null") =>
            {r.keys, r.values} \cap {m.keys, m.values} = {})
    /\ [][(Unsorted /\ r.cls # "null" /\ lastCall'.op \in {"set", "upsert"}) =>
            /\ lastCall'.on = "r" =>
                  /\ KeysOf(heap', m') = mKeys
                  /\ ValuesOf(heap', m') = mValues
            /\ lastCall'.on = "m" =>
                  /\ r' = r
                  /\ KeysOf(heap', r') = KeysOf(heap, r)
                  /\ ValuesOf(heap', r') = ValuesOf(heap, r)]_vars

\* C17 witness: after map on an UnsortedMap of one key, a set on the result
\* has given the result a second key, which the receiver does not hold.
C17_Witness ==
    /\ Unsorted /\ r.cls # "null"
    /\ lastCall.op = "set" /\ lastCall.on = "r"
    /\ Len(mKeys) = 1
    /\ Len(KeysOf(heap, r)) = 2
    /\ KeysOf(heap, r)[2] = lastCall.key

====
